---- MODULE Spec2Model ----
(***************************************************************************)
(* rekordcrate: the command line tool (src/src/main.rs), the parser of     *)
(* *SETTING.DAT files (src/src/setting.rs) and its helpers                 *)
(* (src/src/util.rs), as one state machine.  The rekordcrate::pdb codec    *)
(* that main.rs calls (Header, read_pages, Page, RowGroup, present_rows,   *)
(* the write methods) has no source file here: the operators that stand    *)
(* for it are written from spec.md and say so.                             *)
(***************************************************************************)
EXTENDS Integers, Sequences, FiniteSets, TLC

VARIABLES
    cmd,      \* the subcommand clap parsed from argv (main.rs:25-59)
    pc,       \* position in the running command
    outcome,  \* "running", or how the process ended
    fault,    \* fallible I/O operations that still succeed before one fails
    input,    \* the bytes of the setting file
    parsed,   \* what Setting::parse returned
    file,     \* the PDB file on disk
    ti,       \* index of the table the command is at
    pages,    \* the Vec<Page> read_pages returned for that table
    pi,       \* index into pages
    gi,       \* index into the page's row_groups
    prows,    \* the rows present_rows() yields for that row-group
    ri,       \* index into prows
    out,      \* what was written to the output file or printed, in order
    tree,     \* list_playlists: parent_id -> Vec<PlaylistTreeNode>
    stack     \* list_playlists: the call stack of print_children_of

vars == <<cmd, pc, outcome, fault, input, parsed, file, ti, pages, pi, gi,
          prows, ri, out, tree, stack>>

(***************************************************************************)
(* Bounds of the model.                                                    *)
(***************************************************************************)
\* Longest input of the family of all byte strings over ByteVals.
MaxShortLen == 5
\* Largest len_stringdata and len_unknown1 of the well-formed inputs.
MaxStrData == 4
MaxUnknown1 == 2
\* Most pages of a file.
MaxPages == 2
\* Most I/O operations that succeed before the one that fails.
MaxFault == 14
\* Most rows of a playlist tree, and the largest id of one.
MaxRows == 2
MaxId == 2
\* Frames the call stack has room for.
MaxStack == 6

\* fault when no I/O operation fails.
NoFault == 0 - 1

Take(s, n) == SubSeq(s, 1, n)
Drop(s, n) == SubSeq(s, n + 1, Len(s))

(***************************************************************************)
(* src/src/setting.rs and src/src/util.rs                                  *)
(***************************************************************************)
\* Byte values of the inputs: NUL, two ASCII bytes, and 0xFF, a byte that no
\* UTF-8 encoding contains.
ByteVals == {0, 1, 3, 255}

\* nom_input_error_with_kind: Err::Error carrying the input and the kind.
nom_input_error_with_kind(i, kind) ==
    [kind |-> "Err", err |-> kind, rest |-> i, len_stringdata |-> 0,
     company |-> <<>>, software |-> <<>>, version |-> <<>>,
     len_unknown1 |-> 0, unknown1 |-> <<>>, checksum |-> 0, unknown2 |-> 0]

\* A panic of the thread inside parse (Result::unwrap on an Err).
ParsePanic(i) ==
    [kind |-> "Panic", err |-> "unwrap", rest |-> i, len_stringdata |-> 0,
     company |-> <<>>, software |-> <<>>, version |-> <<>>,
     len_unknown1 |-> 0, unknown1 |-> <<>>, checksum |-> 0, unknown2 |-> 0]

\* nom::number::complete::le_u32.  TLC's integers are 32-bit
\* signed: the top byte is clamped to 127, so a value of 2^31 or more is
\* read as one of at least 127 * 2^24, which is larger than any input too.
le_u32(i) ==
    IF Len(i) < 4
    THEN [ok |-> FALSE, val |-> 0, rest |-> i]
    ELSE [ok |-> TRUE,
          val |-> i[1] + 256 * i[2] + 65536 * i[3]
                  + 16777216 * (IF i[4] > 127 THEN 127 ELSE i[4]),
          rest |-> Drop(i, 4)]

\* nom::number::complete::le_u16
le_u16(i) ==
    IF Len(i) < 2
    THEN [ok |-> FALSE, val |-> 0, rest |-> i]
    ELSE [ok |-> TRUE, val |-> i[1] + 256 * i[2], rest |-> Drop(i, 2)]

\* nom::bytes::complete::take(n)
take(n, i) ==
    IF Len(i) < n
    THEN [ok |-> FALSE, val |-> <<>>, rest |-> i]
    ELSE [ok |-> TRUE, val |-> Take(i, n), rest |-> Drop(i, n)]

\* std::str::from_utf8(..).is_ok(), for byte strings over ByteVals: the
\* bytes below 0x80 are ASCII, and 0xFF is invalid wherever it stands.
from_utf8_ok(s) == \A k \in 1..Len(s) : s[k] < 128

\* str::trim_end_matches('\0')
RECURSIVE trim_end_matches(_)
trim_end_matches(s) ==
    IF Len(s) > 0 /\ s[Len(s)] = 0
    THEN trim_end_matches(Take(s, Len(s) - 1))
    ELSE s

\* Setting::parse
Setting_parse(orig_input) ==
    LET r1 == le_u32(orig_input) IN
    IF ~r1.ok THEN nom_input_error_with_kind(r1.rest, "Eof") ELSE
    LET len_stringdata == r1.val
        \* usize::try_from(u32) succeeds wherever usize has 32 bits or more
        stringdata_size == len_stringdata
        stringdatasection_size == stringdata_size \div 3
        r2 == take(stringdatasection_size, r1.rest) IN
    IF ~r2.ok THEN nom_input_error_with_kind(r2.rest, "Eof") ELSE
    IF ~from_utf8_ok(r2.val) THEN ParsePanic(r2.rest) ELSE
    LET company == trim_end_matches(r2.val)
        r3 == take(stringdatasection_size, r2.rest) IN
    IF ~r3.ok THEN nom_input_error_with_kind(r3.rest, "Eof") ELSE
    IF ~from_utf8_ok(r3.val) THEN ParsePanic(r3.rest) ELSE
    LET software == trim_end_matches(r3.val)
        r4 == take(stringdatasection_size, r3.rest) IN
    IF ~r4.ok THEN nom_input_error_with_kind(r4.rest, "Eof") ELSE
    IF ~from_utf8_ok(r4.val) THEN ParsePanic(r4.rest) ELSE
    LET version == trim_end_matches(r4.val)
        r5 == le_u32(r4.rest) IN
    IF ~r5.ok THEN nom_input_error_with_kind(r5.rest, "Eof") ELSE
    LET len_unknown1 == r5.val
        unknown1_size == len_unknown1
        r6 == take(unknown1_size, r5.rest) IN
    IF ~r6.ok THEN nom_input_error_with_kind(r6.rest, "Eof") ELSE
    LET unknown1 == r6.val
        r7 == le_u16(r6.rest) IN
    IF ~r7.ok THEN nom_input_error_with_kind(r7.rest, "Eof") ELSE
    LET r8 == le_u16(r7.rest) IN
    IF ~r8.ok THEN nom_input_error_with_kind(r8.rest, "Eof") ELSE
    IF r8.rest # <<>> THEN nom_input_error_with_kind(r8.rest, "Complete") ELSE
    [kind |-> "Ok", err |-> "", rest |-> r8.rest,
     len_stringdata |-> len_stringdata, company |-> company,
     software |-> software, version |-> version,
     len_unknown1 |-> len_unknown1, unknown1 |-> unknown1,
     checksum |-> r7.val, unknown2 |-> r8.val]

NotParsed == nom_input_error_with_kind(<<>>, "None")

\* The four little-endian bytes of n.
Le32Bytes(n) ==
    <<n % 256, (n \div 256) % 256, (n \div 65536) % 256, (n \div 16777216) % 256>>

SeqsOfLen(S, n) == [1..n -> S]

\* Every byte string over ByteVals of at most MaxShortLen bytes.
ShortInputs == UNION {SeqsOfLen(ByteVals, n) : n \in 0..MaxShortLen}

\* Files laid out as the format has them (a length, three string sections,
\* a length, the payload, the trailer), with or without a byte after them.
FullInputs ==
    UNION {
      {Le32Bytes(a) \o s \o Le32Bytes(b) \o u \o <<1, 2, 0, 0>> \o e :
         s \in SeqsOfLen({0, 3, 255}, 3 * (a \div 3)),
         u \in SeqsOfLen({1}, b),
         e \in {<<>>, <<0>>}} :
      a \in 0..MaxStrData, b \in 0..MaxUnknown1}

\* ... and every truncation of one.
TruncatedInputs == UNION {{Take(x, n) : n \in 0..Len(x)} : x \in FullInputs}

SettingInputs == ShortInputs \cup TruncatedInputs

(***************************************************************************)
(* The state outside the command that runs.                                *)
(***************************************************************************)
NoFile == [tables |-> <<>>, pages |-> <<>>]

Idle ==
    /\ pc = "main"
    /\ outcome = "running"
    /\ parsed = NotParsed
    /\ ti = 0 /\ pages = <<>> /\ pi = 0 /\ gi = 0 /\ prows = <<>> /\ ri = 0
    /\ out = <<>> /\ tree = <<>> /\ stack = <<>>

\* Whether the fallible I/O operation the command is at fails.
Fails == fault = 0
Tick == IF fault > 0 THEN fault - 1 ELSE fault

\* The process ends: Ok(()) from main is exit code 0, Err(e) from main prints
\* the error and is exit code 1, a panic prints its message and is exit
\* code 101.
End(how) == pc' = "exit" /\ outcome' = how

(***************************************************************************)
(* main.rs: main and dump_setting                                          *)
(***************************************************************************)
\* main: the match on cli.command.
Main ==
    /\ pc = "main"
    /\ pc' = CASE cmd = "ListPlaylists" -> "list_open"
               [] cmd = "DumpPDB" -> "dump_open"
               [] cmd = "ReexportPDB" -> "reex_open"
               [] cmd = "DumpANLZ" -> "anlz_open"
               [] cmd = "DumpSetting" -> "setting_open"
    /\ UNCHANGED <<cmd, outcome, fault, input, parsed, file, ti, pages, pi,
                   gi, prows, ri, out, tree, stack>>

\* dump_setting: std::fs::File::open(path)?
SettingOpen ==
    /\ pc = "setting_open"
    /\ IF Fails THEN End("error") ELSE pc' = "setting_read" /\ outcome' = outcome
    /\ fault' = Tick
    /\ UNCHANGED <<cmd, input, parsed, file, ti, pages, pi, gi, prows, ri,
                   out, tree, stack>>

\* dump_setting: Setting::read(&mut reader)?, then println! and Ok(()).  The
\* bytes of the file are decoded by the decoder of setting.rs, Setting::parse.
SettingRead ==
    /\ pc = "setting_read"
    /\ parsed' = Setting_parse(input)
    /\ CASE parsed'.kind = "Ok" -> End("exit0") /\ out' = <<<<"Setting", 0, 0, 0>>>>
         [] parsed'.kind = "Err" -> End("error") /\ out' = out
         [] parsed'.kind = "Panic" -> End("panic") /\ out' = out
    /\ UNCHANGED <<cmd, fault, input, file, ti, pages, pi, gi, prows, ri,
                   tree, stack>>

(***************************************************************************)
(* The PDB file and the rekordcrate::pdb codec, from spec.md sections 3    *)
(* and 4 (the codec's source is not among the files of src/).              *)
(*                                                                         *)
(* file.tables is the header's table directory.  file.pages[i] is the page *)
(* stored at offset i * page_size (page 0 holds the header).  A page has   *)
(* a page_type, the link to the next page of its chain, and one or more    *)
(* row-groups; a row-group has a 16-bit presence mask and 16 slots.        *)
(***************************************************************************)
\* Slots of a row-group (spec.md section 3, RowGroup).
NumSlots == 16

\* Two of the page types are enough to tell a table's own pages from others.
PageTypes == {"PlaylistTree", "Tracks"}

Slots == 0..(NumSlots - 1)

RECURSIVE Pow2(_)
Pow2(n) == IF n = 0 THEN 1 ELSE 2 * Pow2(n - 1)

\* Bit `slot` of the presence mask.
BitSet(mask, slot) == (mask \div Pow2(slot)) % 2 = 1

\* Page decode: the row-groups of a page, each with the page type its rows
\* are decoded under.
decode_page(idx, p) ==
    [page_index |-> idx, page_type |-> p.page_type, next_page |-> p.next_page,
     row_groups |->
        [g \in 1..Len(p.row_groups) |->
            [page |-> idx, group |-> g, variant |-> p.page_type,
             mask |-> p.row_groups[g].mask, rows |-> p.row_groups[g].rows]]]

\* Row decode: the row of a slot takes the variant of the page type it is
\* decoded under; it is told from every other row of the file by the page,
\* row-group and slot it was read from.
decode_row(row_group, slot) ==
    [variant |-> row_group.variant, page |-> row_group.page,
     group |-> row_group.group, slot |-> slot,
     id |-> row_group.rows[slot + 1][1],
     parent_id |-> row_group.rows[slot + 1][2]]

\* Header::read_pages: follows the chain from first_page to last_page.  A
\* page index outside the file, a page whose page_type is not its owning
\* table's, and a chain longer than the file has pages are format errors.
RECURSIVE follow_chain(_, _, _, _, _)
follow_chain(f, table, idx, acc, fuel) ==
    IF idx \notin 1..Len(f.pages) \/ fuel = 0
    THEN [ok |-> FALSE, pages |-> <<>>]
    ELSE LET p == f.pages[idx] IN
         IF p.page_type # table.page_type
         THEN [ok |-> FALSE, pages |-> <<>>]
         ELSE IF idx = table.last_page
              THEN [ok |-> TRUE, pages |-> Append(acc, decode_page(idx, p))]
              ELSE follow_chain(f, table, p.next_page,
                                Append(acc, decode_page(idx, p)), fuel - 1)

read_pages(f, table) == follow_chain(f, table, table.first_page, <<>>, Len(f.pages))

\* RowGroup::present_rows: the slots in ascending order, the absent skipped.
RECURSIVE present_rows_from(_, _)
present_rows_from(row_group, slot) ==
    IF slot = NumSlots
    THEN <<>>
    ELSE (IF BitSet(row_group.mask, slot)
          THEN <<decode_row(row_group, slot)>> ELSE <<>>)
         \o present_rows_from(row_group, slot + 1)

present_rows(row_group) == present_rows_from(row_group, 0)

\* What each write method puts on the stream: the header fields, the page
\* header fields, the presence mask, the bytes of one row.
HeaderBytes == <<"Header", 0, 0, 0>>
PageBytes(page) == <<"Page", page.page_index, 0, 0>>
RowGroupBytes(row_group) == <<"RowGroup", row_group.page, row_group.group, row_group.mask>>
RowBytes(row) == <<"Row", row.page, row.group, row.slot>>

RECURSIVE Concat(_)
Concat(ss) == IF ss = <<>> THEN <<>> ELSE Head(ss) \o Concat(Tail(ss))

\* The slots whose bit is set, and a set of slots in ascending order.
SetSlots(mask) == {s \in Slots : BitSet(mask, s)}

RECURSIVE Ascending(_)
Ascending(S) ==
    IF S = {}
    THEN <<>>
    ELSE LET m == CHOOSE x \in S : \A y \in S : x <= y
         IN <<m>> \o Ascending(S \ {m})

\* The bytes of a row-group, of a page and of the file as they are stored:
\* the mask and the rows of the present slots; the page header fields and
\* the page's row-groups; the header and then the pages, the page of index
\* i at offset i * page_size.
GroupImage(row_group) ==
    LET slots == Ascending(SetSlots(row_group.mask)) IN
    <<RowGroupBytes(row_group)>>
    \o [k \in 1..Len(slots) |-> RowBytes(decode_row(row_group, slots[k]))]

PageImage(page) ==
    <<PageBytes(page)>>
    \o Concat([g \in 1..Len(page.row_groups) |-> GroupImage(page.row_groups[g])])

FileBytes(f) ==
    <<HeaderBytes>>
    \o Concat([i \in 1..Len(f.pages) |-> PageImage(decode_page(i, f.pages[i]))])

(***************************************************************************)
(* main.rs: reexport_pdb                                                   *)
(***************************************************************************)
\* The output stream after page.write_options(&mut writer, ..), after
\* RowGroup::write(&row_group, &mut writer) and after row.write(&mut writer).
WritePage(o, page) == Append(o, PageBytes(page))

WriteRowGroup_Skipped(o, row_group) == o

WriteRowGroup(o, row_group) == Append(o, RowGroupBytes(row_group))

WriteRow(o, row) == Append(o, RowBytes(row))

\* std::fs::File::open(inpath)?
ReexOpen ==
    /\ pc = "reex_open"
    /\ IF Fails THEN End("error") ELSE pc' = "reex_header" /\ outcome' = outcome
    /\ fault' = Tick
    /\ UNCHANGED <<cmd, input, parsed, file, ti, pages, pi, gi, prows, ri,
                   out, tree, stack>>

\* Header::read(&mut reader)?
ReexHeader ==
    /\ pc = "reex_header"
    /\ IF Fails THEN End("error") ELSE pc' = "reex_create" /\ outcome' = outcome
    /\ fault' = Tick
    /\ UNCHANGED <<cmd, input, parsed, file, ti, pages, pi, gi, prows, ri,
                   out, tree, stack>>

\* std::fs::File::create(outpath)?
ReexCreate ==
    /\ pc = "reex_create"
    /\ IF Fails THEN End("error") ELSE pc' = "reex_hwrite" /\ outcome' = outcome
    /\ fault' = Tick
    /\ UNCHANGED <<cmd, input, parsed, file, ti, pages, pi, gi, prows, ri,
                   out, tree, stack>>

\* header.write(&mut writer)?
ReexHeaderWrite ==
    /\ pc = "reex_hwrite"
    /\ IF Fails
       THEN End("error") /\ UNCHANGED <<out, ti>>
       ELSE /\ out' = Append(out, HeaderBytes)
            /\ ti' = 1
            /\ pc' = "reex_table" /\ outcome' = outcome
    /\ fault' = Tick
    /\ UNCHANGED <<cmd, input, parsed, file, pages, pi, gi, prows, ri, tree, stack>>

\* for table in header.tables: header.read_pages(..).unwrap().into_iter();
\* after the last table, Ok(()).
ReexTable ==
    /\ pc = "reex_table"
    /\ IF ti > Len(file.tables)
       THEN End("exit0") /\ UNCHANGED <<pages, pi, fault>>
       ELSE LET r == read_pages(file, file.tables[ti]) IN
            /\ fault' = Tick
            /\ IF Fails \/ ~r.ok
               THEN End("panic") /\ UNCHANGED <<pages, pi>>
               ELSE /\ pages' = r.pages
                    /\ pi' = 1
                    /\ pc' = "reex_page" /\ outcome' = outcome
    /\ UNCHANGED <<cmd, input, parsed, file, ti, gi, prows, ri, out, tree, stack>>

\* for page in ..: page.write_options(&mut writer, write_options, (page_size,))?
ReexPage ==
    /\ pc = "reex_page"
    /\ IF pi > Len(pages)
       THEN /\ ti' = ti + 1
            /\ pc' = "reex_table" /\ outcome' = outcome
            /\ UNCHANGED <<out, gi, fault>>
       ELSE /\ fault' = Tick
            /\ IF Fails
               THEN End("error") /\ UNCHANGED <<out, gi, ti>>
               ELSE /\ out' = WritePage(out, pages[pi])
                    /\ gi' = 1
                    /\ pc' = "reex_group" /\ outcome' = outcome
                    /\ ti' = ti
    /\ UNCHANGED <<cmd, input, parsed, file, pages, pi, prows, ri, tree, stack>>

\* page.row_groups.iter().for_each: RowGroup::write(&row_group, &mut writer).unwrap()
ReexRowGroup ==
    /\ pc = "reex_group"
    /\ IF gi > Len(pages[pi].row_groups)
       THEN /\ pi' = pi + 1
            /\ pc' = "reex_page" /\ outcome' = outcome
            /\ UNCHANGED <<out, prows, ri, fault>>
       ELSE /\ fault' = Tick
            /\ IF Fails
               THEN End("panic") /\ UNCHANGED <<out, prows, ri, pi>>
               ELSE /\ out' = WriteRowGroup(out, pages[pi].row_groups[gi])
                    /\ prows' = present_rows(pages[pi].row_groups[gi])
                    /\ ri' = 1
                    /\ pc' = "reex_row" /\ outcome' = outcome
                    /\ pi' = pi
    /\ UNCHANGED <<cmd, input, parsed, file, ti, pages, gi, tree, stack>>

\* for row in row_group.present_rows(): row.write(&mut writer).unwrap()
ReexRow ==
    /\ pc = "reex_row"
    /\ IF ri > Len(prows)
       THEN /\ gi' = gi + 1
            /\ pc' = "reex_group" /\ outcome' = outcome
            /\ UNCHANGED <<out, ri, fault>>
       ELSE /\ fault' = Tick
            /\ IF Fails
               THEN End("panic") /\ UNCHANGED <<out, ri, gi>>
               ELSE /\ out' = WriteRow(out, prows[ri])
                    /\ ri' = ri + 1
                    /\ pc' = "reex_row" /\ outcome' = outcome
                    /\ gi' = gi
    /\ UNCHANGED <<cmd, input, parsed, file, ti, pages, pi, prows, tree, stack>>

(***************************************************************************)
(* main.rs: dump_pdb                                                       *)
(***************************************************************************)
\* std::fs::File::open(path)?
DumpOpen ==
    /\ pc = "dump_open"
    /\ IF Fails THEN End("error") ELSE pc' = "dump_header" /\ outcome' = outcome
    /\ fault' = Tick
    /\ UNCHANGED <<cmd, input, parsed, file, ti, pages, pi, gi, prows, ri,
                   out, tree, stack>>

\* Header::read(&mut reader)?, then println!("{:#?}", header)
DumpHeader ==
    /\ pc = "dump_header"
    /\ IF Fails
       THEN End("error") /\ UNCHANGED <<out, ti>>
       ELSE /\ out' = Append(out, HeaderBytes)
            /\ ti' = 1
            /\ pc' = "dump_table" /\ outcome' = outcome
    /\ fault' = Tick
    /\ UNCHANGED <<cmd, input, parsed, file, pages, pi, gi, prows, ri, tree, stack>>

\* for (i, table) in header.tables: println!("Table ..."), then
\* header.read_pages(..).unwrap().into_iter(); after the last table, Ok(()).
DumpTable ==
    /\ pc = "dump_table"
    /\ IF ti > Len(file.tables)
       THEN End("exit0") /\ UNCHANGED <<pages, pi, fault, out>>
       ELSE LET r == read_pages(file, file.tables[ti]) IN
            /\ fault' = Tick
            /\ out' = Append(out, <<"Table", ti, 0, 0>>)
            /\ IF Fails \/ ~r.ok
               THEN End("panic") /\ UNCHANGED <<pages, pi>>
               ELSE /\ pages' = r.pages
                    /\ pi' = 1
                    /\ pc' = "dump_page" /\ outcome' = outcome
    /\ UNCHANGED <<cmd, input, parsed, file, ti, gi, prows, ri, tree, stack>>

\* for page in ..: println!("  {:?}", page)
DumpPage ==
    /\ pc = "dump_page"
    /\ IF pi > Len(pages)
       THEN /\ ti' = ti + 1
            /\ pc' = "dump_table"
            /\ UNCHANGED <<out, gi>>
       ELSE /\ out' = Append(out, PageBytes(pages[pi]))
            /\ gi' = 1
            /\ pc' = "dump_group"
            /\ ti' = ti
    /\ UNCHANGED <<cmd, outcome, fault, input, parsed, file, pages, pi, prows,
                   ri, tree, stack>>

DumpRows_AllSlots(row_group) ==
    [k \in 1..NumSlots |-> RowBytes(decode_row(row_group, k - 1))]

\* for row in row_group.present_rows(): println!("      {:?}", row)
DumpRows(row_group) ==
    LET rows == present_rows(row_group) IN
    [k \in 1..Len(rows) |-> RowBytes(rows[k])]

\* page.row_groups.iter().for_each: println!("    {:?}", row_group), then
\* the rows.
DumpRowGroup ==
    /\ pc = "dump_group"
    /\ IF gi > Len(pages[pi].row_groups)
       THEN /\ pi' = pi + 1
            /\ pc' = "dump_page"
            /\ UNCHANGED <<out, gi>>
       ELSE /\ out' = Append(out, RowGroupBytes(pages[pi].row_groups[gi]))
                      \o DumpRows(pages[pi].row_groups[gi])
            /\ gi' = gi + 1
            /\ pc' = "dump_group"
            /\ pi' = pi
    /\ UNCHANGED <<cmd, outcome, fault, input, parsed, file, ti, pages, prows,
                   ri, tree, stack>>

(***************************************************************************)
(* main.rs: dump_anlz                                                      *)
(***************************************************************************)
\* std::fs::File::open(path)?
AnlzOpen ==
    /\ pc = "anlz_open"
    /\ IF Fails THEN End("error") ELSE pc' = "anlz_read" /\ outcome' = outcome
    /\ fault' = Tick
    /\ UNCHANGED <<cmd, input, parsed, file, ti, pages, pi, gi, prows, ri,
                   out, tree, stack>>

\* ANLZ::read(&mut reader)?, then println! and Ok(())
AnlzRead ==
    /\ pc = "anlz_read"
    /\ IF Fails
       THEN End("error") /\ out' = out
       ELSE End("exit0") /\ out' = <<<<"ANLZ", 0, 0, 0>>>>
    /\ fault' = Tick
    /\ UNCHANGED <<cmd, input, parsed, file, ti, pages, pi, gi, prows, ri,
                   tree, stack>>

(***************************************************************************)
(* main.rs: list_playlists                                                 *)
(***************************************************************************)
\* std::fs::File::open(path)?
ListOpen ==
    /\ pc = "list_open"
    /\ IF Fails THEN End("error") ELSE pc' = "list_header" /\ outcome' = outcome
    /\ fault' = Tick
    /\ UNCHANGED <<cmd, input, parsed, file, ti, pages, pi, gi, prows, ri,
                   out, tree, stack>>

\* Header::read(&mut reader)?, then the empty HashMap
ListHeader ==
    /\ pc = "list_header"
    /\ IF Fails
       THEN End("error") /\ ti' = ti
       ELSE ti' = 1 /\ pc' = "list_table" /\ outcome' = outcome
    /\ fault' = Tick
    /\ UNCHANGED <<cmd, input, parsed, file, pages, pi, gi, prows, ri, out,
                   tree, stack>>

IsPlaylistTable_Negated(table) == table.page_type # "PlaylistTree"

IsPlaylistTable_Any(table) == TRUE

\* .filter(|table| table.page_type == PageType::PlaylistTree)
IsPlaylistTable(table) == table.page_type = "PlaylistTree"

\* The closure of .map: a Row::PlaylistTreeNode is passed on, any other row
\* is unreachable!().
IsPlaylistTreeNode(row) == row.variant = "PlaylistTree"

\* .for_each(|row| tree.entry(row.parent_id).or_default().push(row))
RECURSIVE push_rows(_, _)
push_rows(t, rows) ==
    IF rows = <<>>
    THEN t
    ELSE LET row == Head(rows)
             k == row.parent_id
             t2 == IF k \in DOMAIN t
                   THEN [t EXCEPT ![k] = Append(@, row)]
                   ELSE [j \in DOMAIN t \cup {k} |->
                           IF j = k THEN <<row>> ELSE t[j]]
         IN push_rows(t2, Tail(rows))

\* header.tables.iter().filter(..).flat_map(..): the next table of the
\* directory; one the filter passes is read with read_pages(..).unwrap().
\* After the last table, print_children_of(&tree, PlaylistTreeNodeId(0), 0).
ListTable ==
    /\ pc = "list_table"
    /\ IF ti > Len(file.tables)
       THEN /\ stack' = <<[id |-> 0, level |-> 0, k |-> 1]>>
            /\ pc' = "list_print" /\ outcome' = outcome
            /\ UNCHANGED <<ti, pages, pi, gi, fault>>
       ELSE IF ~IsPlaylistTable(file.tables[ti])
            THEN /\ ti' = ti + 1
                 /\ pc' = "list_table" /\ outcome' = outcome
                 /\ UNCHANGED <<pages, pi, gi, fault, stack>>
            ELSE LET r == read_pages(file, file.tables[ti]) IN
                 /\ fault' = Tick
                 /\ IF Fails \/ ~r.ok
                    THEN End("panic") /\ UNCHANGED <<pages, pi, gi>>
                    ELSE /\ pages' = r.pages
                         /\ pi' = 1 /\ gi' = 1
                         /\ pc' = "list_group" /\ outcome' = outcome
                 /\ UNCHANGED <<ti, stack>>
    /\ UNCHANGED <<cmd, input, parsed, file, prows, ri, out, tree>>

\* .flat_map(|page| page.row_groups.into_iter()).flat_map(|row_group| ..):
\* the present rows of the next row-group are mapped, collected and pushed
\* into the tree.
ListRowGroup ==
    /\ pc = "list_group"
    /\ IF pi > Len(pages)
       THEN /\ ti' = ti + 1
            /\ pc' = "list_table" /\ outcome' = outcome
            /\ UNCHANGED <<pi, gi, tree, prows>>
       ELSE IF gi > Len(pages[pi].row_groups)
            THEN /\ pi' = pi + 1 /\ gi' = 1
                 /\ pc' = "list_group" /\ outcome' = outcome
                 /\ UNCHANGED <<ti, tree, prows>>
            ELSE LET rows == present_rows(pages[pi].row_groups[gi]) IN
                 /\ prows' = rows
                 /\ IF \E k \in 1..Len(rows) : ~IsPlaylistTreeNode(rows[k])
                    THEN End("unreachable") /\ UNCHANGED <<gi, tree>>
                    ELSE /\ tree' = push_rows(tree, rows)
                         /\ gi' = gi + 1
                         /\ pc' = "list_group" /\ outcome' = outcome
                 /\ UNCHANGED <<ti, pi>>
    /\ UNCHANGED <<cmd, fault, input, parsed, file, pages, ri, out, stack>>

\* tree.get(&id).iter().flat_map(|nodes| nodes.iter())
children_of(t, id) == IF id \in DOMAIN t THEN t[id] ELSE <<>>

\* The line println! prints for a node at a level.
LineOf(node, level) == <<"Line", level, node.page, node.group, node.slot>>

\* print_children_of, the body of for_each: the line of the next node of the
\* frame on top, then the call print_children_of(tree, node.id, level + 1).
\* A call stack of MaxStack frames has no room for another: the process dies
\* of stack exhaustion.
PrintNode ==
    /\ pc = "list_print"
    /\ stack # <<>>
    /\ LET top == stack[Len(stack)]
           nodes == children_of(tree, top.id)
       IN /\ top.k <= Len(nodes)
          /\ out' = Append(out, LineOf(nodes[top.k], top.level))
          /\ IF Len(stack) >= MaxStack
             THEN End("overflow") /\ stack' = stack
             ELSE /\ stack' = Append([stack EXCEPT ![Len(stack)].k = top.k + 1],
                                     [id |-> nodes[top.k].id,
                                      level |-> top.level + 1, k |-> 1])
                  /\ pc' = pc /\ outcome' = outcome
    /\ UNCHANGED <<cmd, fault, input, parsed, file, ti, pages, pi, gi, prows,
                   ri, tree>>

\* print_children_of returns once its nodes are done; when the call made by
\* list_playlists returns, Ok(()).
PrintReturn ==
    /\ pc = "list_print"
    /\ stack # <<>>
    /\ LET top == stack[Len(stack)]
           nodes == children_of(tree, top.id)
       IN /\ top.k > Len(nodes)
          /\ stack' = Take(stack, Len(stack) - 1)
          /\ IF Len(stack) = 1
             THEN End("exit0")
             ELSE pc' = pc /\ outcome' = outcome
    /\ UNCHANGED <<cmd, fault, input, parsed, file, ti, pages, pi, gi, prows,
                   ri, out, tree>>

(***************************************************************************)
(* The files the commands are run on.                                      *)
(***************************************************************************)
\* A slot's row as it is stored: its id and its parent id.
DiskRow(i, p) == <<i, p>>

\* A row-group whose slot s holds the row of id base + s.
Group(mask, base) ==
    [mask |-> mask, rows |-> [k \in 1..NumSlots |-> DiskRow(base + k - 1, 0)]]

\* Table directories over pages 1..np: one table or two.
Tables(np) ==
    [page_type : PageTypes, first_page : 1..np, last_page : 1..np]

Directories(np) ==
    {<<t>> : t \in Tables(np)}
    \cup (Tables(np) \X Tables(np))

\* Chain links of a file of np pages: 0 (no page) or another page.
Links(np) == {n \in [1..np -> 0..np] : \A i \in 1..np : n[i] # i}

\* The file of np pages with directory d, page types ty and chain links nx;
\* each page has one row-group with slots 0 and 2 present (mask 0b0101).
StructFile(np, d, ty, nx) ==
    [tables |-> d,
     pages |-> [i \in 1..np |->
                  [page_type |-> ty[i], next_page |-> nx[i],
                   row_groups |-> <<Group(5, 16 * i)>>]]]

\* Files of up to MaxPages pages with every directory, every page type and
\* every chain link.
IsStructFile(f) ==
    \E np \in 1..MaxPages :
       \E d \in Directories(np), ty \in [1..np -> PageTypes], nx \in Links(np) :
          f = StructFile(np, d, ty, nx)

\* A well-formed file of two tables, for the runs in which an I/O operation
\* fails.
SoundFile ==
    [tables |-> <<[page_type |-> "PlaylistTree", first_page |-> 1, last_page |-> 1],
                  [page_type |-> "Tracks", first_page |-> 2, last_page |-> 2]>>,
     pages |-> <<[page_type |-> "PlaylistTree", next_page |-> 0,
                  row_groups |-> <<Group(5, 1)>>],
                 [page_type |-> "Tracks", next_page |-> 0,
                  row_groups |-> <<Group(2, 1), Group(0, 1)>>]>>]

\* A file of one playlist-tree table of one page with one row-group.
OneGroupFile(group) ==
    [tables |-> <<[page_type |-> "PlaylistTree", first_page |-> 1, last_page |-> 1]>>,
     pages |-> <<[page_type |-> "PlaylistTree", next_page |-> 0,
                  row_groups |-> <<group>>]>>]

\* Such a file for every value of the presence mask.
IsMaskFile(f) == \E mask \in 0..(Pow2(NumSlots) - 1) : f = OneGroupFile(Group(mask, 1))

\* Such a file for every way to give up to MaxRows playlist-tree rows ids
\* and parent ids in 0..MaxId.
IsTreeFile(f) ==
    \E n \in 0..MaxRows :
       \E ids \in [1..n -> 0..MaxId], parents \in [1..n -> 0..MaxId] :
          f = OneGroupFile(
                [mask |-> Pow2(n) - 1,
                 rows |-> [k \in 1..NumSlots |->
                             IF k <= n THEN DiskRow(ids[k], parents[k])
                             ELSE DiskRow(0, 0)]])

InitReexport ==
    /\ cmd = "ReexportPDB"
    /\ input = <<>>
    /\ \/ IsStructFile(file) /\ fault = NoFault
       \/ file = SoundFile /\ fault \in 0..MaxFault
    /\ Idle

NextReexport ==
    \/ Main \/ ReexOpen \/ ReexHeader \/ ReexCreate \/ ReexHeaderWrite
    \/ ReexTable \/ ReexPage \/ ReexRowGroup \/ ReexRow

SpecReexport == InitReexport /\ [][NextReexport]_vars

InitDump ==
    /\ cmd = "DumpPDB"
    /\ input = <<>>
    /\ \/ IsMaskFile(file) /\ fault = NoFault
       \/ file = SoundFile /\ fault \in 0..MaxFault
    /\ Idle

NextDump == Main \/ DumpOpen \/ DumpHeader \/ DumpTable \/ DumpPage \/ DumpRowGroup

SpecDump == InitDump /\ [][NextDump]_vars

InitList ==
    /\ cmd = "ListPlaylists"
    /\ input = <<>>
    /\ \/ IsStructFile(file) /\ fault = NoFault
       \/ IsTreeFile(file) /\ fault = NoFault
       \/ file = SoundFile /\ fault \in 0..MaxFault
    /\ Idle

NextList ==
    \/ Main \/ ListOpen \/ ListHeader \/ ListTable \/ ListRowGroup
    \/ PrintNode \/ PrintReturn

SpecList == InitList /\ [][NextList]_vars

\* Every command, on a well-formed file, with and without an I/O operation
\* that fails.
InitCli ==
    /\ cmd \in {"ListPlaylists", "DumpPDB", "ReexportPDB", "DumpANLZ", "DumpSetting"}
    /\ input \in {Le32Bytes(3) \o <<3, 0, 0>> \o Le32Bytes(1) \o <<1, 1, 2, 0, 0>>,
                  Le32Bytes(3) \o <<3, 0, 0>>}
    /\ file = SoundFile
    /\ fault \in {NoFault} \cup 0..MaxFault
    /\ Idle

NextCli ==
    \/ Main \/ SettingOpen \/ SettingRead \/ AnlzOpen \/ AnlzRead
    \/ ListOpen \/ ListHeader \/ ListTable \/ ListRowGroup
    \/ PrintNode \/ PrintReturn
    \/ DumpOpen \/ DumpHeader \/ DumpTable \/ DumpPage \/ DumpRowGroup
    \/ ReexOpen \/ ReexHeader \/ ReexCreate \/ ReexHeaderWrite
    \/ ReexTable \/ ReexPage \/ ReexRowGroup \/ ReexRow

SpecCli == InitCli /\ [][NextCli]_vars

InitSetting ==
    /\ \/ cmd = "DumpSetting" /\ input \in SettingInputs /\ fault \in {NoFault, 0}
       \/ cmd = "DumpANLZ" /\ input = <<>> /\ fault \in {NoFault, 0, 1}
    /\ file = NoFile
    /\ Idle

NextSetting == Main \/ SettingOpen \/ SettingRead \/ AnlzOpen \/ AnlzRead

SpecSetting == InitSetting /\ [][NextSetting]_vars

(***************************************************************************)
(* The properties.                                                         *)
(***************************************************************************)
IsPrefix(a, b) == Len(a) <= Len(b) /\ a = Take(b, Len(a))

NoRepeat(q) == \A j, k \in 1..Len(q) : j # k => q[j] # q[k]

\* The tables at the head of the directory that read_pages decodes.
RECURSIVE LeadingOk(_, _)
LeadingOk(f, k) ==
    IF k > Len(f.tables) \/ ~read_pages(f, f.tables[k]).ok
    THEN k - 1
    ELSE LeadingOk(f, k + 1)

\* The stream that mirrors the read structure: the header, then table by
\* table in directory order and page by page in chain order, the page
\* header, and row-group by row-group the mask and the present rows.
TableImage(f, table) ==
    LET r == read_pages(f, table) IN
    Concat([k \in 1..Len(r.pages) |-> PageImage(r.pages[k])])

WriteOrder(f) ==
    <<HeaderBytes>>
    \o Concat([k \in 1..LeadingOk(f, 1) |-> TableImage(f, f.tables[k])])

\* C1: when reexport_pdb ends with Ok(()), the bytes it wrote are the bytes
\* of the input file: same length, same byte at every offset.
C1_RoundTrip ==
    (cmd = "ReexportPDB" /\ outcome = "exit0") => out = FileBytes(file)

\* The rows list_playlists reads, in the order it reads them.
RowsRead(f) ==
    Concat([t \in 1..Len(f.tables) |->
       LET r == read_pages(f, f.tables[t]) IN
       IF IsPlaylistTable(f.tables[t]) /\ r.ok
       THEN Concat([k \in 1..Len(r.pages) |->
               Concat([g \in 1..Len(r.pages[k].row_groups) |->
                  present_rows(r.pages[k].row_groups[g])])])
       ELSE <<>>])

ChildrenIn(rows, id) == SelectSeq(rows, LAMBDA r : r.parent_id = id)

\* The nodes below id in pre-order, siblings in read order, each with its
\* depth; `fuel` bounds the depth.
RECURSIVE Preorder(_, _, _, _)
Preorder(rows, id, level, fuel) ==
    IF fuel = 0
    THEN <<>>
    ELSE LET ch == ChildrenIn(rows, id) IN
         Concat([k \in 1..Len(ch) |->
            <<LineOf(ch[k], level)>> \o Preorder(rows, ch[k].id, level + 1, fuel - 1)])

\* C2: list_playlists prints each node reachable from id 0 exactly once, at
\* the level of its depth, in pre-order, siblings in read order: no row is
\* printed twice, and the finished output is that pre-order.
C2_Reconstruction ==
    cmd = "ListPlaylists" =>
       /\ NoRepeat([k \in 1..Len(out) |-> <<out[k][3], out[k][4], out[k][5]>>])
       /\ outcome = "exit0" =>
             out = Preorder(RowsRead(file), 0, 0, Len(RowsRead(file)) + 1)

RECURSIVE PopCount(_)
PopCount(m) == IF m = 0 THEN 0 ELSE (m % 2) + PopCount(m \div 2)

RECURSIVE SumPow2(_, _, _)
SumPow2(q, from, n) ==
    IF n = 0 THEN 0 ELSE Pow2(q[from + n][4]) + SumPow2(q, from, n - 1)

\* C3: for every presence mask, the rows dump_pdb gets from present_rows()
\* are one row per set bit and none for a clear bit, in ascending slot
\* order: after the line of a row-group come as many row lines as the mask
\* has set bits, of that row-group, their slots ascending and adding up (as
\* powers of two) to the mask, and then no further row line.  For the mask
\* 0b0101 they are the rows of slots 0 and 2.
C3_PresentRows ==
    cmd = "DumpPDB" =>
       \A k \in 1..Len(out) :
          out[k][1] = "RowGroup" =>
             LET mask == out[k][4]
                 n == PopCount(mask)
             IN /\ k + n <= Len(out)
                /\ \A j \in 1..n :
                      /\ out[k + j][1] = "Row"
                      /\ out[k + j][2] = out[k][2]
                      /\ out[k + j][3] = out[k][3]
                      /\ out[k + j][4] \in Slots
                      /\ j > 1 => out[k + j - 1][4] < out[k + j][4]
                /\ SumPow2(out, k, n) = mask
                /\ k + n < Len(out) => out[k + n + 1][1] # "Row"
                /\ mask = 5 => n = 2 /\ out[k + 1][4] = 0 /\ out[k + 2][4] = 2

C3_Witness ==
    /\ cmd = "DumpPDB"
    /\ out = <<HeaderBytes, <<"Table", 1, 0, 0>>, <<"Page", 1, 0, 0>>,
               <<"RowGroup", 1, 1, 32773>>, <<"Row", 1, 1, 0>>,
               <<"Row", 1, 1, 2>>, <<"Row", 1, 1, 15>>>>

\* The pages of a table's chain: first_page and every page a page of the
\* chain other than last_page links to.
RECURSIVE ChainClosure(_, _, _, _)
ChainClosure(f, table, S, n) ==
    IF n = 0
    THEN S
    ELSE ChainClosure(f, table,
            S \cup {f.pages[i].next_page : i \in S \ {table.last_page}},
            n - 1)

ChainSet(f, table) == ChainClosure(f, table, {table.first_page}, Len(f.pages))

C5_ErrorsReturned == outcome \in {"running", "exit0", "error"}

\* C6: when Setting::parse returns Ok, the input is exactly the 4-byte
\* length, len_stringdata bytes of strings, the 4-byte length, len_unknown1
\* bytes of payload and the 4-byte trailer, and nothing is left over.
C6_Layout ==
    (cmd = "DumpSetting" /\ parsed.kind = "Ok") =>
       /\ Len(input) = 4 + parsed.len_stringdata + 4 + parsed.len_unknown1 + 4
       /\ Len(parsed.unknown1) = parsed.len_unknown1
       /\ parsed.rest = <<>>

\* C7: for every input Setting::parse returns a value, Ok or an error, and
\* never panics; an input that ends before the end of the trailer gets an
\* error.
C7_NoPanic ==
    (cmd = "DumpSetting" /\ pc = "exit" /\ outcome # "error") =>
       /\ parsed.kind \in {"Ok", "Err"}
       /\ Len(input) < 12 => parsed.kind = "Err"

\* Whether no page lies on the chains of two tables of the directory.
ChainsDisjoint(f) ==
    \A j, k \in 1..Len(f.tables) :
       j # k => ChainSet(f, f.tables[j]) \cap ChainSet(f, f.tables[k]) = {}

RowsInTree(t) == UNION {{t[k][j] : j \in 1..Len(t[k])} : k \in DOMAIN t}

RECURSIVE CountRows(_, _)
CountRows(t, keys) ==
    IF keys = {}
    THEN 0
    ELSE LET k == CHOOSE x \in keys : TRUE
         IN Len(t[k]) + CountRows(t, keys \ {k})

\* C9: print_children_of started at id 0 terminates, and it prints at most
\* as many lines as rows were read.
C9_Bounded ==
    cmd = "ListPlaylists" =>
       /\ outcome # "overflow"
       /\ Len(out) <= CountRows(tree, DOMAIN tree)

====
